---- MODULE Spec2Model ----
(***************************************************************************)
(* Model of the acquisitions API: the users table and the services and     *)
(* controllers that read and write it (users.controller.js, the auth       *)
(* services), the JWT helper (utils/jwt.js) and the cookie helper.         *)
(*                                                                         *)
(* Every database call is one atomic step; a handler that awaits several   *)
(* database calls is a sequence of steps, so that the steps of concurrent  *)
(* requests interleave.  Each database call may fail (dbOk = FALSE).       *)
(***************************************************************************)
EXTENDS Integers, Sequences, FiniteSets, TLC

VARIABLES
    users,      \* the rows of the users table
    nextId,     \* the serial of the next inserted row
    rq,         \* per request slot: the handler's position, inputs, locals, answer
    now,        \* the clock, in ticks of MsPerTick milliseconds
    jwtExpiry,  \* JWT_EXPIRY, in seconds
    tok,        \* the token last returned by jwtToken.sign
    tokOf,      \* the payload tok was signed for, and the clock at that call
    vres,       \* the last call of jwtToken.verify and its outcome
    nodeEnv,    \* process.env.NODE_ENV
    jar,        \* the client's cookies, as sent with its next request
    sentSet,    \* the last res.cookie call made by cookies.set
    sentClear,  \* the last res.clearCookie call made by cookies.clear
    lastOp,     \* which of the two was called last
    got         \* what cookies.getCookie returned since

storeVars  == <<users, nextId, rq>>
jwtVars    == <<now, jwtExpiry, tok, tokOf, vres>>
cookieVars == <<nodeEnv, jar, sentSet, sentClear, lastOp, got>>
vars       == <<users, nextId, rq, now, jwtExpiry, tok, tokOf, vres,
               nodeEnv, jar, sentSet, sentClear, lastOp, got>>

---------------------------------------------------------------------------
(* Bounds and input domains *)

MaxId == 2

Procs     == {"r1", "r2"}
Ids       == 1..MaxId
Emails    == {"a@x.com", "b@x.com"}
Names     == {"Ann", "Bob"}
Passwords == {"pw1", "pw2"}
Roles     == {"user", "admin"}

Undefined == "undefined"

\* req.user as attached by the authentication middleware; NoUser is an absent req.user
NoUser    == [id |-> 0, role |-> Undefined]
ReqUsers  == {NoUser} \cup [id : Ids, role : Roles]

NoUpdates == [name |-> Undefined, email |-> Undefined, role |-> Undefined]
Updates   == [name : {Undefined, "Bob"}, email : Emails \cup {Undefined},
              role : Roles \cup {Undefined}]

\* what the schemas of users.validation.js reject
BadId     == 0
BadBody   == [name |-> "invalid", email |-> "invalid", role |-> "invalid"]

\* userIdSchema.safeParse({id}).success
userIdSchema(id) == id \in Ids

\* updateUserSchema.safeParse(body).success
updateUserSchema(body) == body \in Updates

NoInput   == [name |-> Undefined, email |-> Undefined, password |-> Undefined,
              role |-> Undefined]
NoResult  == [none |-> TRUE]

---------------------------------------------------------------------------
(* The users table *)

UserIds(tbl) == {u.id : u \in tbl}

ByEmail(tbl, email) == {u \in tbl : u.email = email}

ById(tbl, id) == {u \in tbl : u.id = id}

\* bcrypt.hash / bcrypt.compare: compare accepts exactly the hashes of the password
hashPassword(password) == <<"bcrypt", password>>

comparePassword(password, hashedPassword) == hashedPassword = <<"bcrypt", password>>

\* the columns a returning({...}) clause or a service result keeps: never the hash
SafeUser(u) == [id |-> u.id, name |-> u.name, email |-> u.email, role |-> u.role]

---------------------------------------------------------------------------
(* Request slots *)

\* body is req.body; updates is the handler's local, the validated data
Idle == [pc |-> "idle", kind |-> "none", user |-> NoUser, id |-> 0,
         body |-> NoUpdates, updates |-> NoUpdates, input |-> NoInput, existing |-> Undefined,
         status |-> 0, error |-> "none", cause |-> "none", result |-> NoResult]

\* the handler has sent a response with this status
Respond(r, status, result) ==
    [r EXCEPT !.pc = "done", !.status = status, !.result = result]

\* the handler has thrown: the error reaches its caller (Express answers 500)
Throw(r, error, cause) ==
    [r EXCEPT !.pc = "done", !.error = error, !.cause = cause]

Start(kind, user, id, body, input) ==
    [Idle EXCEPT !.kind = kind, !.user = user, !.id = id, !.body = body,
                 !.updates = body, !.input = input]

---------------------------------------------------------------------------
(* users.services.js: getAllUsers, getUserById, deleteUser *)

\* getUserById(id): the row without its hash, or the error 'User not found'
getUserById(tbl, id) ==
    IF ById(tbl, id) = {}
    THEN [ok |-> FALSE, error |-> "User not found"]
    ELSE [ok |-> TRUE, user |-> SafeUser(CHOOSE u \in ById(tbl, id) : TRUE)]

\* deleteUser(id): removes the row with this id
deleteUser(tbl, id) == {u \in tbl : u.id # id}

---------------------------------------------------------------------------
(* users.controller.js *)

\* fetchAllUsers: 200 with the list, or the error is rethrown
FetchAllUsers(p) ==
    /\ rq[p].pc = "idle"
    /\ \E dbOk \in BOOLEAN :
         LET r == Start("fetchAll", NoUser, 0, NoUpdates, NoInput) IN
         rq' = [rq EXCEPT ![p] =
                  IF dbOk
                  THEN Respond(r, 200, [count |-> Cardinality(users)])
                  ELSE Throw(r, "Error fetching users", "db")]
    /\ UNCHANGED <<users, nextId, jwtVars, cookieVars>>

\* fetchUserById's answer: 400, 200, 404, or, for any other error, nothing at all
fetchUserByIdAnswer(r, dbOk, tbl) ==
    IF ~userIdSchema(r.id) THEN Respond(r, 400, NoResult)
    ELSE IF ~dbOk THEN [r EXCEPT !.pc = "done", !.cause = "db"]
    ELSE IF getUserById(tbl, r.id).ok
         THEN Respond(r, 200, getUserById(tbl, r.id).user)
         ELSE Respond(r, 404, NoResult)

FetchUserById(p, D) ==
    /\ rq[p].pc = "idle"
    /\ \E id \in D.ids, dbOk \in BOOLEAN :
         rq' = [rq EXCEPT ![p] =
                  fetchUserByIdAnswer(Start("fetchById", NoUser, id, NoUpdates, NoInput),
                                      dbOk, users)]
    /\ UNCHANGED <<users, nextId, jwtVars, cookieVars>>

\* updateChecks without the ownership rule of line 131
updateChecksNoOwner(user, id, updates) ==
    IF ~userIdSchema(id) THEN 400
    ELSE IF ~updateUserSchema(updates) THEN 400
    ELSE IF user = NoUser THEN 401
    ELSE IF updates.role # Undefined /\ user.role # "admin" THEN 403
    ELSE 0

\* updateChecks without the role rule of line 138: the role is then only stripped
updateChecksNoRoleRule(user, id, updates) ==
    IF ~userIdSchema(id) THEN 400
    ELSE IF ~updateUserSchema(updates) THEN 400
    ELSE IF user = NoUser THEN 401
    ELSE IF user.role # "admin" /\ user.id # id THEN 403
    ELSE 0

\* updateUserById, lines 106-143: the status the checks answer, 0 when they all pass
updateChecks(user, id, updates) ==
    IF ~userIdSchema(id) THEN 400
    ELSE IF ~updateUserSchema(updates) THEN 400
    ELSE IF user = NoUser THEN 401
    ELSE IF user.role # "admin" /\ user.id # id THEN 403
    ELSE IF updates.role # Undefined /\ user.role # "admin" THEN 403
    ELSE 0

\* updateUserById, lines 145-147: delete updates.role for a non-admin
stripRole(user, updates) ==
    IF user.role # "admin" THEN [updates EXCEPT !.role = Undefined] ELSE updates

\* UpdateBegin with neither the role rule nor the stripping of the role
UpdateBeginAnyRole(p, D) ==
    /\ rq[p].pc = "idle"
    /\ \E user \in D.users, id \in D.ids, updates \in D.bodies :
         LET r  == Start("update", user, id, updates, NoInput)
             st == updateChecksNoRoleRule(user, id, updates)
         IN  rq' = [rq EXCEPT ![p] =
                      IF st # 0 THEN Respond(r, st, NoResult)
                      ELSE [r EXCEPT !.pc = "upd_get"]]
    /\ UNCHANGED <<users, nextId, jwtVars, cookieVars>>

UpdateBegin(p, D) ==
    /\ rq[p].pc = "idle"
    /\ \E user \in D.users, id \in D.ids, updates \in D.bodies :
         LET r  == Start("update", user, id, updates, NoInput)
             st == updateChecks(user, id, updates)
         IN  rq' = [rq EXCEPT ![p] =
                      IF st # 0 THEN Respond(r, st, NoResult)
                      ELSE [r EXCEPT !.pc = "upd_get",
                                     !.updates = stripRole(user, updates)]]
    /\ UNCHANGED <<users, nextId, jwtVars, cookieVars>>

\* updateUserById's catch: 404, 409, or the error is rethrown
updateCatch(r, message) ==
    IF message = "User not found" THEN Respond(r, 404, NoResult)
    ELSE IF message = "Email already exists" THEN Respond(r, 409, NoResult)
    ELSE Throw(r, "Error updating user", message)

\* updateUser, line 64: is the email uniqueness query made
emailChanges(updates, existingEmail) ==
    updates.email # Undefined /\ updates.email # existingEmail

\* updateUser, line 61: getUserById
UpdGet(p) ==
    /\ rq[p].pc = "upd_get"
    /\ \E dbOk \in BOOLEAN :
         LET r   == rq[p]
             found == getUserById(users, r.id)
         IN  rq' = [rq EXCEPT ![p] =
                      IF ~dbOk THEN updateCatch(r, "db")
                      ELSE IF ~found.ok THEN updateCatch(r, found.error)
                      ELSE [r EXCEPT !.existing = found.user.email,
                                     !.pc = IF emailChanges(r.updates, found.user.email)
                                            THEN "upd_email" ELSE "upd_write"]]
    /\ UNCHANGED <<users, nextId, jwtVars, cookieVars>>

\* updateUser, lines 65-72: the email uniqueness query
UpdEmailCheck(p) ==
    /\ rq[p].pc = "upd_email"
    /\ \E dbOk \in BOOLEAN :
         LET r == rq[p] IN
         rq' = [rq EXCEPT ![p] =
                  IF ~dbOk THEN updateCatch(r, "db")
                  ELSE IF ByEmail(users, r.updates.email) # {}
                       THEN updateCatch(r, "Email already exists")
                       ELSE [r EXCEPT !.pc = "upd_write"]]
    /\ UNCHANGED <<users, nextId, jwtVars, cookieVars>>

\* updateUser, lines 76-84: set({...updates}) on one row
applyUpdates(u, updates) ==
    [u EXCEPT !.name  = IF updates.name  # Undefined THEN updates.name  ELSE @,
              !.email = IF updates.email # Undefined THEN updates.email ELSE @,
              !.role  = IF updates.role  # Undefined THEN updates.role  ELSE @]

\* updateUser, lines 81-95: update ... where id; no row updated makes
\* updatedUser undefined and updatedUser.email a TypeError
UpdWrite(p) ==
    /\ rq[p].pc = "upd_write"
    /\ \E dbOk \in BOOLEAN :
         LET r    == rq[p]
             rows == ById(users, r.id)
         IN  IF ~dbOk
             THEN /\ rq' = [rq EXCEPT ![p] = updateCatch(r, "db")]
                  /\ users' = users
             ELSE IF rows = {}
             THEN /\ rq' = [rq EXCEPT ![p] = updateCatch(r, "TypeError")]
                  /\ users' = users
             ELSE /\ users' = (users \ rows) \cup {applyUpdates(u, r.updates) : u \in rows}
                  /\ rq' = [rq EXCEPT ![p] =
                              Respond(r, 200,
                                 SafeUser(applyUpdates(CHOOSE u \in rows : TRUE, r.updates)))]
    /\ UNCHANGED <<nextId, jwtVars, cookieVars>>

\* deleteChecks without the self-deletion rule of line 193
deleteChecksNoSelf(user, id) ==
    IF ~userIdSchema(id) THEN 400
    ELSE IF user = NoUser THEN 401
    ELSE IF user.role # "admin" THEN 403
    ELSE 0

\* deleteUserById, lines 170-198: the status the checks answer, 0 when they all pass
deleteChecks(user, id) ==
    IF ~userIdSchema(id) THEN 400
    ELSE IF user = NoUser THEN 401
    ELSE IF user.role # "admin" THEN 403
    ELSE IF user.id = id THEN 403
    ELSE 0

\* deleteUserById's catch
deleteCatch(r, message) ==
    IF message = "User not found" THEN Respond(r, 404, NoResult)
    ELSE Throw(r, "Error deleting user", message)

DeleteUserById(p, D) ==
    /\ rq[p].pc = "idle"
    /\ \E user \in D.users, id \in D.ids, dbOk \in BOOLEAN :
         LET r  == Start("delete", user, id, NoUpdates, NoInput)
             st == deleteChecks(user, id)
         IN  IF st # 0
             THEN /\ rq' = [rq EXCEPT ![p] = Respond(r, st, NoResult)]
                  /\ users' = users
             ELSE IF ~dbOk
             THEN /\ rq' = [rq EXCEPT ![p] = deleteCatch(r, "db")]
                  /\ users' = users
             ELSE IF ~getUserById(users, id).ok
             THEN /\ rq' = [rq EXCEPT ![p] = deleteCatch(r, "User not found")]
                  /\ users' = users
             ELSE /\ users' = deleteUser(users, id)
                  /\ rq' = [rq EXCEPT ![p] = Respond(r, 200, getUserById(users, id).user)]
    /\ UNCHANGED <<nextId, jwtVars, cookieVars>>

---------------------------------------------------------------------------
(* auth services: createUser, authenticateUser *)

\* createUser's catch: whatever was thrown, 'Error creating user' is rethrown
createCatch(r, message) == Throw(r, "Error creating user", message)

\* createUser, lines 27-32: the lookup by email
CreateLookup(p, D) ==
    /\ rq[p].pc = "idle"
    /\ nextId + Cardinality({q \in Procs : rq[q].pc = "create_insert"}) <= MaxId
    /\ \E name \in D.names, email \in D.emails, password \in D.passwords,
          role \in D.roles,
          dbOk \in BOOLEAN :
         LET r == Start("create", NoUser, 0, NoUpdates,
                        [name |-> name, email |-> email, password |-> password,
                         role |-> role])
         IN  rq' = [rq EXCEPT ![p] =
                      IF ~dbOk THEN createCatch(r, "db")
                      ELSE IF ByEmail(users, email) # {}
                           THEN createCatch(r, "User already exists")
                           ELSE [r EXCEPT !.pc = "create_insert"]]
    /\ UNCHANGED <<users, nextId, jwtVars, cookieVars>>

\* createUser, lines 33-45: hash the password and insert the row
CreateInsert(p) ==
    /\ rq[p].pc = "create_insert"
    /\ \E dbOk \in BOOLEAN :
         LET r   == rq[p]
             row == [id |-> nextId, name |-> r.input.name, email |-> r.input.email,
                     password |-> hashPassword(r.input.password), role |-> r.input.role]
         IN  IF ~dbOk
             THEN /\ rq' = [rq EXCEPT ![p] = createCatch(r, "db")]
                  /\ UNCHANGED <<users, nextId>>
             ELSE /\ users' = users \cup {row}
                  /\ nextId' = nextId + 1
                  /\ rq' = [rq EXCEPT ![p] = Respond(r, 0, SafeUser(row))]
    /\ UNCHANGED <<jwtVars, cookieVars>>

\* authenticateUser's catch: whatever was thrown, 'Error authenticating user' is rethrown
authCatch(r, message) == Throw(r, "Error authenticating user", message)

\* authenticateUser returning the row it read, hash included
authenticateUserWholeRow(r, tbl, dbOk) ==
    IF ~dbOk THEN authCatch(r, "db")
    ELSE IF ByEmail(tbl, r.input.email) = {} THEN authCatch(r, "User not found")
    ELSE LET existingUser == CHOOSE u \in ByEmail(tbl, r.input.email) : TRUE IN
         IF ~comparePassword(r.input.password, existingUser.password)
         THEN authCatch(r, "Invalid password")
         ELSE Respond(r, 0, existingUser)

\* authenticateUser: the call's outcome on a table
authenticateUser(r, tbl, dbOk) ==
    IF ~dbOk THEN authCatch(r, "db")
    ELSE IF ByEmail(tbl, r.input.email) = {} THEN authCatch(r, "User not found")
    ELSE LET existingUser == CHOOSE u \in ByEmail(tbl, r.input.email) : TRUE IN
         IF ~comparePassword(r.input.password, existingUser.password)
         THEN authCatch(r, "Invalid password")
         ELSE Respond(r, 0, SafeUser(existingUser))

AuthenticateUser(p, D) ==
    /\ rq[p].pc = "idle"
    /\ \E email \in D.emails, password \in Passwords, dbOk \in BOOLEAN :
         LET r == Start("auth", NoUser, 0, NoUpdates,
                        [name |-> Undefined, email |-> email, password |-> password,
                         role |-> Undefined])
         IN  rq' = [rq EXCEPT ![p] = authenticateUser(r, users, dbOk)]
    /\ UNCHANGED <<users, nextId, jwtVars, cookieVars>>

\* the response has gone out (or the error has reached Express): the slot is free
Retire(p) ==
    /\ rq[p].pc = "done"
    /\ rq' = [rq EXCEPT ![p] = Idle]
    /\ UNCHANGED <<users, nextId, jwtVars, cookieVars>>

-----------------------------------------------------------------------------------------------------------------------------------------------------------------------------------------------------------------------
(* utils/jwt.js over jsonwebtoken *)

MsPerTick == 500
MaxNow    == 8
MaxTtl    == 2
MaxIat    == 1

\* process.env.JWT_SECRET || 'jwt_secret'
JWT_SECRET == "jwt_secret"

\* Math.floor(Date.now() / 1000) at clock t
UnixSeconds(t) == (t * MsPerTick) \div 1000

\* the payloads signed: an identity, with or without an iat of its own
Payloads ==
    {[id |-> i, hasIat |-> FALSE, iat |-> 0] : i \in Ids}
    \cup [id : Ids, hasIat : {TRUE}, iat : 0..MaxIat]

\* the signature of a claim set under a key
Hmac(key, id, iat, exp) == [key |-> key, id |-> id, iat |-> iat, exp |-> exp]

NoToken  == [form |-> "none", id |-> 0, iat |-> 0, exp |-> 0, sig |-> Hmac("none", 0, 0, 0)]
NoClaims == [id |-> 0, iat |-> 0, exp |-> 0]
NoCall   == [token |-> NoToken, at |-> 0, ok |-> FALSE, value |-> NoClaims, error |-> "none"]
NoSigned == [payload |-> [id |-> 0, hasIat |-> FALSE, iat |-> 0], at |-> 0]

\* jwt.sign(payload, secret, {expiresIn}) at clock t: iat is payload.iat || now,
\* exp is iat + expiresIn
jwtSign(payload, secret, expiresIn, t) ==
    LET iat == IF payload.hasIat /\ payload.iat # 0 THEN payload.iat ELSE UnixSeconds(t)
        exp == iat + expiresIn
    IN  [form |-> "jwt", id |-> payload.id, iat |-> iat, exp |-> exp,
         sig |-> Hmac(secret, payload.id, iat, exp)]

\* jwtVerify accepting a token in the second it expires
jwtVerifyLate(token, secret, t) ==
    IF token.form # "jwt"
    THEN [ok |-> FALSE, value |-> NoClaims, error |-> "jwt malformed"]
    ELSE IF token.sig # Hmac(secret, token.id, token.iat, token.exp)
    THEN [ok |-> FALSE, value |-> NoClaims, error |-> "invalid signature"]
    ELSE IF UnixSeconds(t) > token.exp
    THEN [ok |-> FALSE, value |-> NoClaims, error |-> "jwt expired"]
    ELSE [ok |-> TRUE, value |-> [id |-> token.id, iat |-> token.iat, exp |-> token.exp],
          error |-> "none"]

\* jwt.verify(token, secret) at clock t: the claims, or the error thrown
jwtVerify(token, secret, t) ==
    IF token.form # "jwt"
    THEN [ok |-> FALSE, value |-> NoClaims, error |-> "jwt malformed"]
    ELSE IF token.sig # Hmac(secret, token.id, token.iat, token.exp)
    THEN [ok |-> FALSE, value |-> NoClaims, error |-> "invalid signature"]
    ELSE IF UnixSeconds(t) >= token.exp
    THEN [ok |-> FALSE, value |-> NoClaims, error |-> "jwt expired"]
    ELSE [ok |-> TRUE, value |-> [id |-> token.id, iat |-> token.iat, exp |-> token.exp],
          error |-> "none"]

\* jwtToken.verify: whatever jwt.verify throws, 'Failed to verify token' is thrown
verify(token, t) ==
    LET v == jwtVerify(token, JWT_SECRET, t) IN
    IF v.ok THEN v ELSE [v EXCEPT !.error = "Failed to verify token"]

\* what a client may present: the token, a forgery under another key, the token
\* with its expiry moved, something that is no token
Presented(token) ==
    {token,
     [token EXCEPT !.sig = Hmac("other", token.id, token.iat, token.exp)],
     [token EXCEPT !.exp = @ + MaxTtl],
     [token EXCEPT !.form = "garbage"]}

Tick ==
    /\ now < MaxNow
    /\ now' = now + 1
    /\ UNCHANGED <<jwtExpiry, tok, tokOf, vres, storeVars, cookieVars>>

\* jwtToken.sign(payload)
Sign ==
    /\ \E payload \in Payloads :
         /\ tok' = jwtSign(payload, JWT_SECRET, jwtExpiry, now)
         /\ tokOf' = [payload |-> payload, at |-> now]
    /\ vres' = NoCall
    /\ UNCHANGED <<now, jwtExpiry, storeVars, cookieVars>>

\* jwtToken.verify(token)
Verify ==
    /\ tok # NoToken
    /\ \E token \in Presented(tok) :
         vres' = [token |-> token, at |-> now] @@ verify(token, now)
    /\ UNCHANGED <<now, jwtExpiry, tok, tokOf, storeVars, cookieVars>>

---------------------------------------------------------------------------
(* the cookie helper *)

CookieNames  == {"token", "theme"}
CookieValues == {"jwt1", "jwt2"}
NoCookie     == "absent"
NodeEnvs     == {"production", "development", "test"}

FixedKeys == {"httpOnly", "secure", "sameSite", "maxAge"}

\* cookies.getOptions()
getOptions ==
    [k \in FixedKeys |->
        CASE k = "httpOnly" -> TRUE
          [] k = "secure"   -> nodeEnv = "production"
          [] k = "sameSite" -> "strict"
          [] k = "maxAge"   -> 1000 * 60 * 15]

\* the options objects a caller passes: any subset of the keys of one of these
OptionKeys == FixedKeys \cup {"priority"}
LooseOptions ==
    [k \in OptionKeys |->
        CASE k = "httpOnly" -> FALSE
          [] k = "secure"   -> FALSE
          [] k = "sameSite" -> "none"
          [] k = "maxAge"   -> 0
          [] k = "priority" -> "high"]
OtherOptions ==
    [k \in OptionKeys |->
        CASE k = "httpOnly" -> FALSE
          [] k = "secure"   -> TRUE
          [] k = "sameSite" -> "lax"
          [] k = "maxAge"   -> 1000 * 60
          [] k = "priority" -> "low"]
OptionKeySets ==
    {{}, {"priority"}, {"maxAge"}, {"httpOnly", "secure", "sameSite"}, OptionKeys}
CallerOptions ==
    {[k \in S |-> o[k]] : S \in OptionKeySets, o \in {LooseOptions, OtherOptions}}

\* { ...a, ...b }
Spread(a, b) ==
    [k \in DOMAIN a \cup DOMAIN b |-> IF k \in DOMAIN b THEN b[k] ELSE a[k]]

\* mergedOptions with the spreads in the other order: the caller's options win
mergedOptionsCallerLast(options) == Spread(getOptions, options)

\* the options cookies.set and cookies.clear pass on
mergedOptions(options) == Spread(options, getOptions)

NoSent == [name |-> "none", value |-> NoCookie, given |-> {}, options |-> getOptions]
NoGot  == [name |-> "none", value |-> NoCookie]

\* res.cookie(name, value, options) as the client takes it: a cookie whose Max-Age
\* is not positive is dropped at once
resCookie(cookies, name, value, options) ==
    IF "maxAge" \in DOMAIN options /\ options["maxAge"] <= 0
    THEN [cookies EXCEPT ![name] = NoCookie]
    ELSE [cookies EXCEPT ![name] = value]

\* res.clearCookie(name, options) as the client takes it
resClearCookie(cookies, name, options) == [cookies EXCEPT ![name] = NoCookie]

\* cookies.getCookie(req, name)
getCookie(req, name) == req.cookies[name]

\* cookies.set(res, name, value, options)
CookieSet ==
    /\ \E name \in CookieNames, value \in CookieValues, options \in CallerOptions :
         /\ sentSet' = [name |-> name, value |-> value, given |-> DOMAIN options,
                        options |-> mergedOptions(options)]
         /\ jar' = resCookie(jar, name, value, mergedOptions(options))
    /\ lastOp' = "set"
    /\ got' = NoGot
    /\ UNCHANGED <<nodeEnv, sentClear, storeVars, jwtVars>>

\* cookies.clear(res, name, options)
CookieClear ==
    /\ \E name \in CookieNames, options \in CallerOptions :
         /\ sentClear' = [name |-> name, value |-> NoCookie, given |-> DOMAIN options,
                          options |-> mergedOptions(options)]
         /\ jar' = resClearCookie(jar, name, mergedOptions(options))
    /\ lastOp' = "clear"
    /\ got' = NoGot
    /\ UNCHANGED <<nodeEnv, sentSet, storeVars, jwtVars>>

\* cookies.getCookie on the client's next request
GetCookie ==
    /\ \E name \in CookieNames :
         got' = [name |-> name, value |-> getCookie([cookies |-> jar], name)]
    /\ UNCHANGED <<nodeEnv, jar, sentSet, sentClear, lastOp, storeVars, jwtVars>>

-----
(* The server *)

\* the inputs of a request
AllInputs ==
    [users |-> ReqUsers, ids |-> Ids \cup {BadId}, bodies |-> Updates \cup {BadBody},
     names |-> {"Ann"}, emails |-> Emails, passwords |-> Passwords, roles |-> Roles]

\* the inputs of the concurrent requests of SpecConc
FewInputs ==
    [users |-> {[id |-> 1, role |-> "user"], [id |-> 2, role |-> "admin"]},
     ids |-> Ids,
     bodies |-> {[NoUpdates EXCEPT !.email = e] : e \in Emails}
                \cup {[NoUpdates EXCEPT !.name = "Bob"]},
     names |-> {"Ann"}, emails |-> Emails, passwords |-> {"pw1"}, roles |-> {"user"}]

StoreInit ==
    /\ users = {}
    /\ nextId = 1
    /\ rq = [p \in Procs |-> Idle]

\* the configuration is read from the environment when the process starts
JwtInit(expiries) ==
    /\ now = 0
    /\ jwtExpiry \in expiries
    /\ tok = NoToken
    /\ tokOf = NoSigned
    /\ vres = NoCall

CookieInit(envs) ==
    /\ nodeEnv \in envs
    /\ jar = [n \in CookieNames |-> NoCookie]
    /\ sentSet = NoSent
    /\ sentClear = NoSent
    /\ lastOp = "none"
    /\ got = NoGot

Init == StoreInit /\ JwtInit({1}) /\ CookieInit({"development"})

\* one request at a time, every input
Next ==
    \E p \in {"r1"} :
        \/ FetchAllUsers(p)
        \/ FetchUserById(p, AllInputs)
        \/ UpdateBegin(p, AllInputs)
        \/ UpdGet(p)
        \/ UpdEmailCheck(p)
        \/ UpdWrite(p)
        \/ DeleteUserById(p, AllInputs)
        \/ CreateLookup(p, AllInputs)
        \/ CreateInsert(p)
        \/ AuthenticateUser(p, AllInputs)
        \/ Retire(p)

Spec == Init /\ [][Next]_vars

\* concurrent requests: the steps of createUser, updateUserById and deleteUserById
\* interleave
NextConc ==
    \E p \in Procs :
        \/ UpdateBegin(p, FewInputs)
        \/ UpdGet(p)
        \/ UpdEmailCheck(p)
        \/ UpdWrite(p)
        \/ DeleteUserById(p, FewInputs)
        \/ CreateLookup(p, FewInputs)
        \/ CreateInsert(p)
        \/ Retire(p)

SpecConc == Init /\ [][NextConc]_vars

\* the token helper alone
NextJwt == Tick \/ Sign \/ Verify

InitJwt == StoreInit /\ JwtInit(1..MaxTtl) /\ CookieInit({"development"})

SpecJwt == InitJwt /\ [][NextJwt]_vars

\* the cookie helper alone
NextCookie == CookieSet \/ CookieClear \/ GetCookie

InitCookie == StoreInit /\ JwtInit({1}) /\ CookieInit(NodeEnvs)

SpecCookie == InitCookie /\ [][NextCookie]_vars

---------------------------------------------------------------------------
(* Properties *)

Done(p, kind) == rq[p].pc = "done" /\ rq[p].kind = kind

\* request slot p takes the step
Acts(p) == rq'[p] # rq[p]

\* C1: an admin's deleteUserById on the admin's own id is answered 403, and no
\* delete request removes the row whose id is its requester's id.
C1_NoSelfDelete ==
    /\ [](\A p \in Procs :
            Done(p, "delete") /\ rq[p].user.role = "admin" /\ rq[p].id = rq[p].user.id
            => rq[p].status = 403)
    /\ [][\A p \in Procs :
            Acts(p) /\ rq'[p].kind = "delete"
            => \A u \in users : u.id = rq'[p].user.id => u \in users']_vars

\* an admin has asked to delete the admin's own row, which is stored, and got 403
C1_Witness ==
    \E p \in Procs :
        /\ Done(p, "delete") /\ rq[p].user.role = "admin" /\ rq[p].id = rq[p].user.id
        /\ rq[p].status = 403
        /\ rq[p].id \in UserIds(users)

\* C2: a stored role differs before and after a step only when the request taking
\* the step has an admin as requester.
C2_OnlyAdminsChangeRoles ==
    [][\A p \in Procs :
         Acts(p) /\ (\E u \in users, v \in users' : u.id = v.id /\ u.role # v.role)
         => rq[p].user.role = "admin"]_vars

\* a non-admin's update of a row whose stored role is admin has succeeded
C2_Witness ==
    \E p \in Procs :
        /\ Done(p, "update") /\ rq[p].status = 200
        /\ rq[p].user.role = "user"
        /\ \E u \in users : u.id = rq[p].id /\ u.role = "admin"

\* an authenticated non-admin's request with a valid id and a valid body without a role
PlainUpdate(r) ==
    /\ r.kind = "update"
    /\ r.user # NoUser /\ r.user.role # "admin"
    /\ userIdSchema(r.id) /\ updateUserSchema(r.body)
    /\ r.body.role = Undefined

\* the row with this id carries the fields of the update
Applied(tbl, id, updates) ==
    \E u \in tbl :
        /\ u.id = id
        /\ updates.name  # Undefined => u.name  = updates.name
        /\ updates.email # Undefined => u.email = updates.email

\* C3: a non-admin's valid update without a role of the requester's own id passes
\* the authorization checks, and then fails only for a missing row (404), a taken
\* email (409) or a failed database call, and otherwise answers 200 with the fields
\* applied; on any other id it answers 403 and changes no row.
C3_SelfUpdateOnly ==
    /\ [](\A p \in Procs :
            PlainUpdate(rq[p]) /\ rq[p].id = rq[p].user.id
            => /\ rq[p].status \in {0, 200, 404, 409}
               /\ rq[p].pc = "done" =>
                    /\ rq[p].status = 200 => Applied(users, rq[p].id, rq[p].body)
                    /\ rq[p].status = 404 => rq[p].id \notin UserIds(users)
                    /\ rq[p].status = 409 =>
                         \E u \in users : u.email = rq[p].body.email /\ u.id # rq[p].id
                    /\ rq[p].status = 0 => rq[p].cause = "db")
    /\ [](\A p \in Procs :
            Done(p, "update") /\ PlainUpdate(rq[p]) /\ rq[p].id # rq[p].user.id
            => rq[p].status = 403)
    /\ [][\A p \in Procs :
            Acts(p) /\ PlainUpdate(rq'[p]) /\ rq'[p].id # rq'[p].user.id
            => users' = users]_vars

\* a non-admin has changed the name and email of the requester's own row
C3_Witness ==
    \E p \in Procs :
        /\ Done(p, "update") /\ PlainUpdate(rq[p]) /\ rq[p].id = rq[p].user.id
        /\ rq[p].status = 200
        /\ rq[p].body.name # Undefined /\ rq[p].body.email # Undefined
        /\ Cardinality(users) > 1

\* C4: what createUser and authenticateUser throw tells the failure kinds apart:
\* a stored email, an unknown email and a wrong password each reach the caller as
\* an error of their own.
C4_DistinctErrors ==
    \A p \in Procs :
        rq[p].pc = "done" /\ rq[p].kind \in {"create", "auth"} /\ rq[p].error # "none"
        => /\ rq[p].cause = "User already exists" => rq[p].error = "User already exists"
           /\ rq[p].cause = "User not found"      => rq[p].error = "User not found"
           /\ rq[p].cause = "Invalid password"    => rq[p].error = "Invalid password"
           /\ rq[p].cause = "db" => rq[p].error \notin
                  {"User already exists", "User not found", "Invalid password"}

\* C5: no two stored rows have the same email.
C5_UniqueEmails ==
    \A u \in users, v \in users : u.email = v.email => u = v

\* the seconds of the clock at which the last signed token expires: its iat (the
\* payload's own when it has one that is not 0, else the second of the signing) plus
\* JWT_EXPIRY
C6_Iat ==
    IF tokOf.payload.hasIat /\ tokOf.payload.iat # 0
    THEN tokOf.payload.iat
    ELSE (tokOf.at * MsPerTick) \div 1000

\* C6 as amended: verify returns the claims of the token sign returned (the
\* payload's id, iat, exp) iff the clock's whole second is before exp = iat +
\* JWT_EXPIRY; anything else presented fails; every failure is the error
\* 'Failed to verify token'.
C6_ExpiryBySeconds ==
    vres # NoCall
    => /\ vres.token = tok =>
            /\ vres.ok <=> (vres.at * MsPerTick) \div 1000 < C6_Iat + jwtExpiry
            /\ vres.ok => vres.value = [id |-> tokOf.payload.id, iat |-> C6_Iat,
                                       exp |-> C6_Iat + jwtExpiry]
       /\ vres.token # tok => ~vres.ok
       /\ ~vres.ok => vres.error = "Failed to verify token"
       /\ vres.ok => vres.error = "none"

\* the token was presented in the very second it expires, and was refused
C6_Witness ==
    /\ vres # NoCall /\ vres.token = tok
    /\ (vres.at * MsPerTick) \div 1000 = C6_Iat + jwtExpiry
    /\ ~vres.ok /\ vres.error = "Failed to verify token"

\* C6 as stated: a token signed at t0 for a payload without an iat verifies iff the
\* time t of the call is before t0 + ttl.
C6_Original ==
    vres # NoCall /\ vres.token = tok /\ ~tokOf.payload.hasIat
    => (vres.ok <=> vres.at * MsPerTick < tokOf.at * MsPerTick + jwtExpiry * 1000)

\* the four attributes the helper fixes, in the options of a call
C7_Fixed(o) ==
    /\ FixedKeys \subseteq DOMAIN o
    /\ o["httpOnly"] = TRUE
    /\ o["sameSite"] = "strict"
    /\ o["secure"] = (nodeEnv = "production")
    /\ o["maxAge"] = 1000 * 60 * 15

\* C7: whatever options the caller gives, cookies.set and cookies.clear pass on
\* httpOnly true, sameSite strict, secure exactly in production and the helper's
\* maxAge, the same in both; the value read back after a set is the value set, and
\* after a clear the cookie is absent.
C7_FixedAttributes ==
    /\ sentSet.name # "none" => C7_Fixed(sentSet.options)
    /\ sentClear.name # "none" => C7_Fixed(sentClear.options)
    /\ sentSet.name # "none" /\ sentClear.name # "none"
       => \A k \in FixedKeys : sentSet.options[k] = sentClear.options[k]
    /\ got.name # "none" /\ lastOp = "set" /\ got.name = sentSet.name
       => got.value = sentSet.value
    /\ got.name # "none" /\ lastOp = "clear" /\ got.name = sentClear.name
       => got.value = NoCookie

\* a cookie set with caller options for all four fixed attributes was read back,
\* after an earlier clear
C7_Witness ==
    /\ lastOp = "set" /\ got.name = sentSet.name /\ got.value = sentSet.value
    /\ FixedKeys \subseteq sentSet.given
    /\ sentClear.name = sentSet.name /\ FixedKeys \subseteq sentClear.given

\* C8: a handler of the users controller that has ended has sent a response or
\* has thrown to the framework.
C8_AlwaysAnswered ==
    \A p \in Procs :
        rq[p].pc = "done" /\ rq[p].kind \in {"fetchAll", "fetchById", "update", "delete"}
        => rq[p].status # 0 \/ rq[p].error # "none"

\* C9: authenticateUser changes no row; unless the database call fails it succeeds
\* exactly when a stored row has the email and a hash of the password, whatever
\* calls came before; what it returns has no password field.
C9_AuthReadOnly ==
    /\ [](\A p \in Procs :
            Done(p, "auth")
            => /\ "password" \notin DOMAIN rq[p].result
               /\ rq[p].cause # "db" =>
                    (rq[p].error = "none" <=>
                        \E u \in users : /\ u.email = rq[p].input.email
                                         /\ u.password = <<"bcrypt", rq[p].input.password>>)
               /\ rq[p].error = "none" =>
                    \E u \in users : /\ u.email = rq[p].input.email
                                     /\ rq[p].result = [id |-> u.id, name |-> u.name,
                                                        email |-> u.email, role |-> u.role])
    /\ [][\A p \in Procs : Acts(p) /\ rq'[p].kind = "auth" => users' = users]_vars

\* a call with the right password has returned the identity
C9_Witness ==
    \E p \in Procs :
        /\ Done(p, "auth") /\ rq[p].error = "none"
        /\ rq[p].result.email = rq[p].input.email
        /\ Cardinality(users) > 1

\* a non-admin's valid update of the requester's own id with a role and another field
RoleAndMore(r) ==
    /\ r.kind = "update"
    /\ r.user # NoUser /\ r.user.role # "admin" /\ r.id = r.user.id
    /\ updateUserSchema(r.body)
    /\ r.body.role # Undefined
    /\ r.body.name # Undefined \/ r.body.email # Undefined

====
